---- MODULE Spec2Model ----
(***************************************************************************)
(* Tiered scrape-refresh pipeline of NCAA4NBA: the file-backed persistence *)
(* layer of scraper.py (update_schedule_partial, update_draft_data,        *)
(* run_scraper), the jobs of background_scheduler.py that call it, and the *)
(* name normaliser of main.py / app.py, the merged views main.py derives    *)
(* from the two frames, and the season loop of scrape_ncaa_schedule.       *)
(*                                                                         *)
(* A data file is modelled with the inode it names: open(path, "w")        *)
(* truncates the inode that is already at the path, os.replace moves the   *)
(* inode of the temporary path to the destination together with the        *)
(* handles that are still open on it.                                      *)
(*                                                                         *)
(* A schedule "block" stands for the games one fetch returned for one      *)
(* date; every operation of the code selects rows by DATE only, so the     *)
(* games of one date and one fetch always move together.                   *)
(***************************************************************************)
EXTENDS Integers, Sequences, FiniteSets, TLC

(* ------------------------------ bounds -------------------------------- *)
MaxRuns == 2          \* job executions started in one behaviour
MaxCalls == 1         \* calls made one after another in a serial behaviour
MaxVer == 1           \* distinct versions the remote source can serve
MaxFaults == 1        \* file I/O errors injected in one behaviour
MaxClock == 31        \* last minute of the wall clock
GamesPerDate == 30    \* games the source lists on a date that has games
MaxLen == 4           \* longest raw name given to the normaliser
MaxProspects == 2     \* rows of the roster frame
MaxGames == 2         \* rows of the schedule frame
MaxToday == 15        \* latest day, counted from the first, on which the jobs fire
MaxFirstGame == 20    \* latest offset from today of the first day with games
MaxFetches == 3       \* dates of the range of one refresh
MaxRefreshes == 2     \* refreshes of one range in succession

(* ------------------------- program constants -------------------------- *)
MinDraftRows == 30       \* validate_data(draft_df, min_rows=30)
MinScheduleRows == 100   \* validate_data(schedule_df, min_rows=100)
NearStart == 1           \* tomorrow = today + 1
NearEnd == 7             \* week_end = today + 7
FarStart == 8            \* week_start = today + 8
FarEnd == 98             \* far_end = today + 98
TodayInterval == 30      \* minutes=30
NearInterval == 360      \* hours=6
DailyInterval == 1440    \* cron, once a day
BatchSize == 30          \* batch_size = 30
SafetyLimit == 365       \* while ... and day_offset < 365
max_consecutive_empty == 10   \* def scrape_ncaa_schedule(max_consecutive_empty=10)

Null == -1               \* JSON null / Python None for a timestamp

(* --------------------------- environment ------------------------------ *)
Today == 0                               \* get_eastern_today(), as day offset
SourceDates == {0, 1, 7, 8}              \* dates on which the source lists games
PastDate == Today - 1                    \* a date persisted by an earlier day's run
TickSteps == {29, 31}                    \* minutes the clock may jump
DraftSizes == {0, 29, 60}                \* rows the mock-draft page may yield
FetchKinds == {"ok", "timeout", "no_table"}

PartialJobs == {"today", "nearfuture", "full"}
ScheduledJobs == PartialJobs \cup {"draft"}
Jobs == ScheduledJobs \cup {"run_scraper"}
Files == {"sched", "draft", "meta"}
Slots == {"file", "tmp", "backup"}

VARIABLES
  fs,           \* fs[F][slot]: the data directory (file, file.tmp, file.backup)
  pc,           \* pc[j]: position of job j in its handler
  new_data,     \* new_data[j]: blocks returned by j's schedule scrape
  combined_df,  \* combined_df[j]: schedule frame j is about to save
  draft_df,     \* draft_df[j]: roster frame j scraped
  metadata,     \* metadata[j]: metadata dict j is about to dump
  scrape_time,  \* scrape_time[j]: run_scraper's timestamp taken at entry
  result,       \* result[j]: how j's last execution ended
  now,          \* get_eastern_now(), in minutes
  runs,         \* executions started so far
  faults,       \* I/O errors injected so far
  readerSaw,    \* what the display layer met when it last loaded a file
  call,         \* history: the inputs of the call entered last, when calls are
                \* made one at a time (job, fetch outcomes, files at entry)
  raw,          \* normaliser: the raw name
  key,          \* normaliser: clean_team_name(raw)
  key2,         \* normaliser: clean_team_name(key)
  nstep,        \* normaliser: number of applications done
  prospects,          \* main.py: draft_df, the roster frame
  schedule,           \* main.py: schedule_df, the schedule frame
  draft_with_games,   \* main.py: the draft board
  games_with_players, \* main.py: the games with their All_Players column
  super_matchups,     \* main.py: the games with prospects on both teams
  mstep,              \* main.py: number of prepare_* calls done (lines 414-416)
  today,              \* scheduler: get_eastern_today() when the jobs fire
  job_range,          \* scheduler: job_range[j], the range job j passed on
  game_days,          \* season loop: offsets from today whose page lists games
  batch,              \* season loop: batch_dates, as offsets from today
  dates_scraped,      \* season loop: all_dates_scraped, as offsets from today
  dates_with_games,   \* season loop: the keys of all_data, as offsets
  day_offset,         \* season loop: day_offset
  consecutive_empty,  \* season loop: consecutive_empty
  season_pc,          \* season loop: "while", "scrape", "count" or "done"
  fetch_range,        \* refresh: the [start, end] passed to update_schedule_partial
  fetch_kinds,        \* refresh: fetch_kinds[d], how the fetch of date d ends
  future_to_date,     \* refresh: dates whose future has not completed
  all_data_keys,      \* refresh: keys of all_data, in insertion order
  range_records,      \* refresh: the frame scrape_date_range returned
  sched_file,         \* refresh: the schedule file
  sched_before,       \* refresh: the schedule file when the last call began
  refreshes,          \* refresh: calls of update_schedule_partial completed
  pool_pc,            \* refresh: "idle", "fetch", "collected" or "done"
  pool_result,        \* refresh: what the last call returned
  cell,               \* extract_cell_content: the table cell given
  cell_content,       \* extract_cell_content: the value returned
  cstep,              \* extract_cell_content: 1 once it has returned
  db_prospects,       \* flask_app: table prospects, rows [id, rank]
  db_games,           \* flask_app: table games, rows [id, game_date]
  db_game_prospects,  \* flask_app: table game_prospects, rows [prospect_id, game_id]
  draft_board_list,   \* flask_app index: the list given to the template
  bstep,              \* flask_app index: 1 once the page is rendered
  team_key,           \* app.py: the TEAM cell made from raw
  side_key,           \* app.py: the HomeTeam / AwayTeam cell made from raw
  merge_key           \* app.py: the School_Merge cell made from raw

fileVars == <<fs, pc, new_data, combined_df, draft_df, metadata, scrape_time,
              result, now, runs, faults, readerSaw>>
normVars == <<raw, key, key2, nstep>>
mergeVars == <<prospects, schedule, draft_with_games, games_with_players,
               super_matchups, mstep>>
\* the variables the persistence layer never touches
rangeVars == <<today, job_range>>
seasonVars == <<game_days, batch, dates_scraped, dates_with_games, day_offset,
                consecutive_empty, season_pc>>
poolVars == <<fetch_range, fetch_kinds, future_to_date, all_data_keys,
              range_records, sched_file, sched_before, refreshes, pool_pc,
              pool_result>>
cellVars == <<cell, cell_content, cstep>>
boardVars == <<db_prospects, db_games, db_game_prospects, draft_board_list, bstep>>
pathVars == <<team_key, side_key, merge_key>>
restVars == <<poolVars, cellVars, boardVars, pathVars>>
\* everything but the variables of the refresh
exceptPool == <<fileVars, call, normVars, mergeVars, rangeVars, seasonVars,
                cellVars, boardVars, pathVars>>
\* everything but the variables of the cell extraction
exceptCell == <<fileVars, call, normVars, mergeVars, rangeVars, seasonVars,
                poolVars, boardVars, pathVars>>
\* everything but the variables of the database-backed board
exceptBoard == <<fileVars, call, normVars, mergeVars, rangeVars, seasonVars,
                 poolVars, cellVars, pathVars>>
viewVars == <<normVars, mergeVars, rangeVars, seasonVars, restVars>>
vars == <<fs, pc, new_data, combined_df, draft_df, metadata, scrape_time,
          result, now, runs, faults, readerSaw, call, raw, key, key2, nstep,
          mergeVars, rangeVars, seasonVars, restVars>>

(* ------------------------------ metadata ------------------------------ *)
\* scraper.py load_metadata: the dict returned when no metadata file exists
DefaultMetadata ==
  [last_scrape_time |-> Null, draft_prospects_count |-> 0, games_count |-> 0,
   scraper_version |-> "2.0", last_today_scrape |-> Null,
   last_nearfuture_scrape |-> Null, last_full_scrape |-> Null]

\* f"last_{date_range_name}_scrape"
ScrapeKey(j) ==
  CASE j = "today" -> "last_today_scrape"
    [] j = "nearfuture" -> "last_nearfuture_scrape"
    [] OTHER -> "last_full_scrape"

\* the range with a near-future window one day short
range_end_short(j, t) ==
  CASE j = "today" -> t
    [] j = "nearfuture" -> t + NearEnd - 1
    [] OTHER -> t + FarEnd

\* the date range a scheduled job computes from today = t
range_start(j, t) ==
  CASE j = "today" -> t
    [] j = "nearfuture" -> t + NearStart
    [] OTHER -> t + FarStart

range_end(j, t) ==
  CASE j = "today" -> t
    [] j = "nearfuture" -> t + NearEnd
    [] OTHER -> t + FarEnd

\* the date range each scheduled job passes to update_schedule_partial
start_date(j) == range_start(j, Today)

end_date(j) == range_end(j, Today)

\* len(df) of a schedule frame
RowCount(df) == Len(df) * GamesPerDate

(* ------------------------------ files --------------------------------- *)
EmptyOf(F) ==
  CASE F = "sched" -> <<>>
    [] F = "draft" -> [v |-> 0, n |-> 0]
    [] OTHER -> DefaultMetadata

NoFile(F) ==
  [exists |-> FALSE, content |-> EmptyOf(F), torn |-> FALSE,
   openers |-> {}, raced |-> FALSE]

\* a complete, closed file holding c
FileOf(c) ==
  [exists |-> TRUE, content |-> c, torn |-> FALSE, openers |-> {}, raced |-> FALSE]

\* open(path + ".tmp", "w"): creates the file or truncates the inode in place
fs_open(f, F, j) ==
  LET old == f["tmp"]
      shared == old.exists /\ old.openers # {}
  IN [f EXCEPT !["tmp"] =
        [exists |-> TRUE, content |-> EmptyOf(F), torn |-> TRUE,
         openers |-> (IF old.exists THEN old.openers ELSE {}) \cup {j},
         raced |-> shared]]

\* the slot whose inode j still has open; none when the inode was unlinked
HandleSlots(f, j) == {s \in Slots : f[s].exists /\ j \in f[s].openers}

\* write the whole content and close; ok = FALSE leaves the inode incomplete
fs_close(f, F, j, data, ok) ==
  [s \in Slots |->
     IF s \in HandleSlots(f, j)
       THEN [f[s] EXCEPT !.content = IF ok THEN data ELSE EmptyOf(F),
                         !.torn = ~ok,
                         !.openers = f[s].openers \ {j}]
       ELSE f[s]]

\* two handles on one inode: the bytes that end up in it are not determined
CloseOutcomes(f, j) ==
  IF \E s \in HandleSlots(f, j) : f[s].raced THEN {TRUE, FALSE} ELSE {TRUE}

\* os.replace(temp_path, filepath)
fs_replace(f, F) == [f EXCEPT !["file"] = f["tmp"], !["tmp"] = NoFile(F)]

\* no copy made before the file is overwritten
backup_skipped(f) == f

\* backup_file: shutil.copy2(filepath, filepath + ".backup") when it exists
backup_file(f) ==
  IF f["file"].exists
    THEN [f EXCEPT !["backup"] = [f["file"] EXCEPT !.openers = {}, !.raced = FALSE]]
    ELSE f

\* load_metadata of scraper.py, on a readable metadata file
load_metadata(f) ==
  IF f["file"].exists THEN f["file"].content ELSE DefaultMetadata

(* ------------------------------ scraping ------------------------------ *)
RECURSIVE SortedDates(_)
\* sorted(all_data.keys()): the dates of a set in ascending order
SortedDates(S) ==
  IF S = {} THEN <<>>
  ELSE LET m == CHOOSE x \in S : \A y \in S : x <= y
       IN <<m>> \o SortedDates(S \ {m})

\* scrape_single_date: the records of one date, or None (here FALSE) when the
\* request fails, times out or the page has no table
scrape_single_date(d, kind) == kind = "ok"

\* a failed fetch re-raised out of the pool loop: the whole range is lost
scrape_date_range_abort(start, end, kinds, v) ==
  LET batch_dates == {d \in DOMAIN kinds : start <= d /\ d <= end}
      keys == SortedDates(batch_dates)
  IN IF \E d \in batch_dates : kinds[d] # "ok"
       THEN <<>>
       ELSE [i \in 1..Len(keys) |-> [DATE |-> keys[i], v |-> v]]

\* scrape_date_range: one fetch per date of [start, end]; a date whose fetch
\* returned nothing is left out; records are appended in ascending date order
scrape_date_range(start, end, kinds, v) ==
  LET batch_dates == {d \in DOMAIN kinds : start <= d /\ d <= end}
      all_data == {d \in batch_dates : scrape_single_date(d, kinds[d])}
      keys == SortedDates(all_data)
  IN [i \in 1..Len(keys) |-> [DATE |-> keys[i], v |-> v]]

\* scrape_ncaa_schedule, first batch: today .. today + 29 holds every date of
\* the source that has games
scrape_ncaa_schedule(kinds, v) ==
  scrape_date_range(Today, Today + BatchSize - 1, kinds, v)

\* validate_data: TRUE, or FALSE where the code raises ValueError
validate_data(rows, min_rows) == rows # 0 /\ rows >= min_rows

RECURSIVE InsertByDate(_, _)
InsertByDate(sorted, b) ==
  IF sorted = <<>> THEN <<b>>
  ELSE IF Head(sorted).DATE <= b.DATE
         THEN <<Head(sorted)>> \o InsertByDate(Tail(sorted), b)
         ELSE <<b>> \o sorted

RECURSIVE sort_values(_)
\* combined_df.sort_values('DATE')
sort_values(df) ==
  IF df = <<>> THEN <<>>
  ELSE InsertByDate(sort_values(SubSeq(df, 1, Len(df) - 1)), df[Len(df)])

\* the mask built with & instead of |: no row passes
remove_range_and(existing_df, start, end) ==
  SelectSeq(existing_df, LAMBDA b : b.DATE < start /\ b.DATE > end)

\* no stored row removed before the new rows are appended
remove_nothing(existing_df, start, end) == existing_df

\* existing_df[(DATE < start_date) | (DATE > end_date)]
remove_range(existing_df, start, end) ==
  SelectSeq(existing_df, LAMBDA b : b.DATE < start \/ b.DATE > end)

\* update_schedule_partial, lines 340-353: the frame that is saved
combine(file, new, start, end) ==
  IF file.exists
    THEN sort_values(remove_range(file.content, start, end) \o new)
    ELSE new

\* the emptiness test left out: every scrape is saved
is_empty_never(df) == FALSE

\* new_data.empty
is_empty(df) == df = <<>>

\* what the caller of j sees when a step of j raises: update_schedule_partial
\* and update_draft_data return False, run_scraper re-raises
OnException(j) == IF j = "run_scraper" THEN "raised" ELSE "False"

(* --------------------------- name normaliser -------------------------- *)
\* a name is a sequence of characters; NaN is the missing value of pandas
Alphabet == {"S", "t", ".", "'", "@", "1", " ", "a"}
NaN == <<"NaN">>
Names == {NaN} \cup UNION {[1..n -> Alphabet] : n \in 0..MaxLen}

StartsWith(s, p) == Len(s) >= Len(p) /\ SubSeq(s, 1, Len(p)) = p
EndsWith(s, p) == Len(s) >= Len(p) /\ SubSeq(s, Len(s) - Len(p) + 1, Len(s)) = p

\* re.sub(r'[@0-9]', '', s)
strip_markers(s) == SelectSeq(s, LAMBDA c : c \notin {"@", "0", "1", "2", "3", "4", "5", "6", "7", "8", "9"})

RECURSIVE lstrip(_)
lstrip(s) == IF s # <<>> /\ Head(s) = " " THEN lstrip(Tail(s)) ELSE s

RECURSIVE rstrip(_)
rstrip(s) ==
  IF s # <<>> /\ s[Len(s)] = " " THEN rstrip(SubSeq(s, 1, Len(s) - 1)) ELSE s

\* str.strip()
strip(s) == rstrip(lstrip(s))

\* re.sub(r'St\.$', 'State', s)
suffix_rule(s) ==
  IF EndsWith(s, <<"S", "t", ".">>)
    THEN SubSeq(s, 1, Len(s) - 3) \o <<"S", "t", "a", "t", "e">>
    ELSE s

\* re.sub(r'^St\.', 'Saint', s)
prefix_rule(s) ==
  IF StartsWith(s, <<"S", "t", ".">>)
    THEN <<"S", "a", "i", "n", "t">> \o SubSeq(s, 4, Len(s))
    ELSE s

\* the name with its apostrophes left in
keep_apostrophes(s) == s

\* s.replace("'", "")
remove_apostrophes(s) == SelectSeq(s, LAMBDA c : c # "'")

\* main.py clean_team_name
clean_team_name(team_name) ==
  IF team_name = NaN \/ team_name = <<>>
    THEN <<>>
    ELSE remove_apostrophes(prefix_rule(suffix_rule(strip(strip_markers(team_name)))))

(* ---------------------------- merged views ---------------------------- *)
\* raw names as the two sources spell them, one character per element
Duke == <<"D", "u", "k", "e">>
DukeRanked == Duke \o <<" ", "5">>
AtDuke == <<"@">> \o Duke \o <<" ", "1", "2">>
Johns == <<"J", "o", "h", "n", "s">>
StJohnsApostrophe == <<"S", "t", ".", " ", "J", "o", "h", "n", "'", "s">>
StJohns == <<"S", "t", ".", " ">> \o Johns
SaintJohns == <<"S", "a", "i", "n", "t", " ">> \o Johns
Oklahoma == <<"O", "k", "l", "a", "h", "o", "m", "a">>
OklahomaSt == Oklahoma \o <<" ", "S", "t", ".">>
OklahomaState == Oklahoma \o <<" ", "S", "t", "a", "t", "e">>
Kansas == <<"K", "a", "n", "s", "a", "s">>
TBD == <<"T", "B", "D">>

\* spellings of one school that the two sources use
Examples == {OklahomaSt, OklahomaState, StJohnsApostrophe, SaintJohns, AtDuke, Duke}

SchoolNames == {Duke, StJohnsApostrophe, OklahomaSt}   \* School cells of the mock draft
TeamNames == {DukeRanked, StJohns, Kansas}             \* AWAY / HOME cells of the schedule
GameDates == {Today + 1, Today + 2}                    \* DATE of a scraped game

\* str(n) of a non-negative int
Digit(d) ==
  CASE d = 0 -> "0" [] d = 1 -> "1" [] d = 2 -> "2" [] d = 3 -> "3" [] d = 4 -> "4"
    [] d = 5 -> "5" [] d = 6 -> "6" [] d = 7 -> "7" [] d = 8 -> "8" [] OTHER -> "9"

RECURSIVE str(_)
str(n) == IF n < 10 THEN <<Digit(n)>> ELSE str(n \div 10) \o <<Digit(n % 10)>>

\* the Player cell of the i-th row of the mock draft
PlayerName(i) == <<"P">> \o str(i)

\* the frames scrape_nba_draft_data can return: never empty (it falls back to
\* the static roster, and the page stops on an empty frame), one row per pick
DraftFrames ==
  {d \in UNION {[1..n -> [Rank : 1..MaxProspects, Team : {<<"-">>},
                          Player : {PlayerName(i) : i \in 1..MaxProspects},
                          School : SchoolNames]] : n \in 1..MaxProspects} :
     /\ \A i \in 1..Len(d) : d[i].Player = PlayerName(i)
     /\ \A i, k \in 1..Len(d) : i # k => d[i].Rank # d[k].Rank}

\* the frames scrape_ncaa_schedule can return: the dates are scraped in
\* order, a row needs away != home, duplicates are dropped; the two sides of
\* a game are different teams
ScheduleFrames ==
  {s \in UNION {[1..n -> [DATE : GameDates, AWAY : TeamNames, HOME : TeamNames,
                          TIME : {TBD}, TV : {<<>>}]] : n \in 0..MaxGames} :
     /\ \A i \in 1..Len(s) : s[i].AWAY # s[i].HOME
     /\ \A i, k \in 1..Len(s) : i < k => s[i].DATE <= s[k].DATE /\ s[i] # s[k]}

\* the columns shared by every frame derived from schedule_df
KeyedGame(g) ==
  [DATE |-> g.DATE, AWAY |-> g.AWAY, HOME |-> g.HOME, TIME |-> g.TIME, TV |-> g.TV,
   HomeTeam |-> clean_team_name(g.HOME), AwayTeam |-> clean_team_name(g.AWAY)]

\* draft_df['School_Merge'] as a set, for Series.isin
School_Merge(d) == {clean_team_name(d[i].School) : i \in 1..Len(d)}

\* one row of pd.merge(draft_df, prospect_games, how='left'): NaN / NaT in the
\* game columns when g is no game
MergedRow(p, g) ==
  [Rank |-> p.Rank, Team |-> p.Team, Player |-> p.Player, School |-> p.School,
   DATE |-> g.DATE, TIME |-> g.TIME, TV |-> g.TV, AWAY |-> g.AWAY, HOME |-> g.HOME]

NoGame == [DATE |-> Null, TIME |-> NaN, TV |-> NaN, AWAY |-> NaN, HOME |-> NaN]

\* pd.merge(..., how='left'): left rows in order, each with its matches in the
\* order of the right frame, or once with NaN
RECURSIVE merge_left(_, _)
merge_left(left, right) ==
  IF left = <<>> THEN <<>>
  ELSE LET p == Head(left)
           matches == SelectSeq(right, LAMBDA r : r.TEAM = clean_team_name(p.School))
           rows == IF matches = <<>> THEN <<MergedRow(p, NoGame)>>
                   ELSE [i \in 1..Len(matches) |-> MergedRow(p, matches[i])]
       IN  rows \o merge_left(Tail(left), right)

\* sort order of ['Rank', 'DATE'], ascending, NaT last
DateLE(x, y) == IF x = Null THEN y = Null ELSE (y = Null \/ x <= y)
RowLE(a, b) == a.Rank < b.Rank \/ (a.Rank = b.Rank /\ DateLE(a.DATE, b.DATE))

RECURSIVE InsertRow(_, _)
InsertRow(sorted, r) ==
  IF sorted = <<>> THEN <<r>>
  ELSE IF RowLE(Head(sorted), r) THEN <<Head(sorted)>> \o InsertRow(Tail(sorted), r)
  ELSE <<r>> \o sorted

\* result.sort_values(by=['Rank', 'DATE'], ascending=[True, True])
RECURSIVE sort_rank_date(_)
sort_rank_date(df) ==
  IF df = <<>> THEN <<>>
  ELSE InsertRow(sort_rank_date(SubSeq(df, 1, Len(df) - 1)), df[Len(df)])

\* result.drop_duplicates(subset=['Rank', 'Player', 'School']), keep first
RECURSIVE drop_duplicate_prospects(_)
drop_duplicate_prospects(df) ==
  IF df = <<>> THEN <<>>
  ELSE LET kept == drop_duplicate_prospects(SubSeq(df, 1, Len(df) - 1))
           r == df[Len(df)]
       IN  IF \E i \in 1..Len(kept) : /\ kept[i].Rank = r.Rank
                                      /\ kept[i].Player = r.Player
                                      /\ kept[i].School = r.School
             THEN kept ELSE Append(kept, r)

\* main.py prepare_draft_with_games
prepare_draft_with_games(d, s) ==
  IF d = <<>> \/ s = <<>> THEN <<>>
  ELSE LET keyed == [i \in 1..Len(s) |-> KeyedGame(s[i])]
           home_games == [i \in 1..Len(s) |-> keyed[i] @@ [TEAM |-> keyed[i].HomeTeam]]
           away_games == [i \in 1..Len(s) |-> keyed[i] @@ [TEAM |-> keyed[i].AwayTeam]]
           combined_schedule == home_games \o away_games
           prospect_games == SelectSeq(combined_schedule,
                                       LAMBDA r : r.TEAM \in School_Merge(d))
           merged == merge_left(d, prospect_games)
       IN  drop_duplicate_prospects(sort_rank_date(merged))

\* main.py get_players_for_team: the roster rows of a team, in roster order
get_players_for_team(d, team_name) ==
  SelectSeq(d, LAMBDA p : clean_team_name(p.School) = team_name)

RECURSIVE InsertPlayer(_, _)
InsertPlayer(sorted, p) ==
  IF sorted = <<>> THEN <<p>>
  ELSE IF Head(sorted).Rank <= p.Rank THEN <<Head(sorted)>> \o InsertPlayer(Tail(sorted), p)
  ELSE <<p>> \o sorted

\* the players in the order they were collected
unsorted(players) == players

\* sorted(players, key=lambda x: int(x['Rank'])), and sort_values(by='Rank')
RECURSIVE sorted_by_rank(_)
sorted_by_rank(players) ==
  IF players = <<>> THEN <<>>
  ELSE InsertPlayer(sorted_by_rank(SubSeq(players, 1, Len(players) - 1)),
                    players[Len(players)])

\* f"{p['School']}-#{str(p['Rank'])} {p['Player']}"
format_player(p) == p.School \o <<"-", "#">> \o str(p.Rank) \o <<" ">> \o p.Player

\* ', '.join(parts)
RECURSIVE join(_)
join(parts) ==
  IF parts = <<>> THEN <<>>
  ELSE IF Len(parts) = 1 THEN parts[1]
  ELSE parts[1] \o <<",", " ">> \o join(Tail(parts))

\* main.py prepare_games_with_players
prepare_games_with_players(d, s) ==
  IF d = <<>> \/ s = <<>> THEN <<>>
  ELSE [i \in 1..Len(s) |->
          LET g == KeyedGame(s[i])
              HomeTeam_Players == get_players_for_team(d, g.HomeTeam)
              AwayTeam_Players == get_players_for_team(d, g.AwayTeam)
              All_Players == HomeTeam_Players \o AwayTeam_Players
              ranked == sorted_by_rank(All_Players)
          IN  g @@ [HomeTeam_Players |-> HomeTeam_Players,
                    AwayTeam_Players |-> AwayTeam_Players,
                    All_Players |->
                      IF All_Players # <<>>
                        THEN join([k \in 1..Len(ranked) |-> format_player(ranked[k])])
                        ELSE <<>>]]

\* a game with a prospect on one of its teams
either_team_has_prospects(r, keys) == r.HomeTeam \in keys \/ r.AwayTeam \in keys

\* games_df['HomeTeam'].isin(...) & games_df['AwayTeam'].isin(...)
both_teams_have_prospects(r, keys) == r.HomeTeam \in keys /\ r.AwayTeam \in keys

\* the columns with the two teams exchanged
matchup_columns_swapped(r) ==
  [AWAY |-> r.HOME, HOME |-> r.AWAY, DATE |-> r.DATE, TIME |-> r.TIME, TV |-> r.TV,
   All_Players |-> r.All_Players]

\* super_matchups[['AWAY', 'HOME', 'DATE', 'TIME', 'TV', 'All_Players']]
matchup_columns(r) ==
  [AWAY |-> r.AWAY, HOME |-> r.HOME, DATE |-> r.DATE, TIME |-> r.TIME, TV |-> r.TV,
   All_Players |-> r.All_Players]

\* DataFrame.drop_duplicates(), keep first
RECURSIVE drop_duplicates(_)
drop_duplicates(df) ==
  IF df = <<>> THEN <<>>
  ELSE LET kept == drop_duplicates(SubSeq(df, 1, Len(df) - 1))
           r == df[Len(df)]
       IN  IF \E i \in 1..Len(kept) : kept[i] = r THEN kept ELSE Append(kept, r)

\* main.py prepare_super_matchups
prepare_super_matchups(d, games_with_players_df) ==
  IF d = <<>> \/ games_with_players_df = <<>> THEN <<>>
  ELSE LET keys == School_Merge(d)
           both == SelectSeq(games_with_players_df,
                             LAMBDA r : both_teams_have_prospects(r, keys))
       IN  drop_duplicates([i \in 1..Len(both) |-> matchup_columns(both[i])])

(* ---------------------------- control flow ---------------------------- *)
Idle == [op |-> "idle", file |-> "-"]
At(op, F) == [op |-> op, file |-> F]

\* the statement that follows a completed os.replace in each handler
AfterReplace(j, F) ==
  CASE F = "meta" -> Idle
    [] F = "sched" -> IF j = "run_scraper" THEN At("backup", "meta") ELSE At("load_meta", "-")
    [] OTHER -> IF j = "run_scraper" THEN At("scrape_sched", "-") ELSE At("load_meta", "-")

\* the frame or dict a handler writes to file F
DataToWrite(j, F) ==
  CASE F = "sched" -> combined_df[j]
    [] F = "draft" -> draft_df[j]
    [] OTHER -> metadata[j]

\* the handler of j returns (or raises): locals die, the outcome is kept
Finish(j, r) ==
  /\ pc' = [pc EXCEPT ![j] = Idle]
  /\ result' = [result EXCEPT ![j] = r]
  /\ combined_df' = [combined_df EXCEPT ![j] = <<>>]
  /\ draft_df' = [draft_df EXCEPT ![j] = EmptyOf("draft")]
  /\ metadata' = [metadata EXCEPT ![j] = DefaultMetadata]
  /\ scrape_time' = [scrape_time EXCEPT ![j] = Null]

Goto(j, p) ==
  /\ pc' = [pc EXCEPT ![j] = p]
  /\ UNCHANGED result

(* ------------------------------ actions ------------------------------- *)
\* a scheduled job fires update_schedule_partial(j, start, end): lines 331-333.
\* APScheduler runs at most one instance of a job (max_instances default 1) and
\* runs different jobs on different pool threads.
StartPartial(j, kinds, v) ==
  /\ j \in PartialJobs
  /\ pc[j] = Idle
  /\ runs < MaxRuns
  /\ new_data' = [new_data EXCEPT ![j] =
                    scrape_date_range(start_date(j), end_date(j), kinds, v)]
  /\ pc' = [pc EXCEPT ![j] = At("check", "-")]
  /\ result' = [result EXCEPT ![j] = "running"]
  /\ runs' = runs + 1
  /\ UNCHANGED <<fs, combined_df, draft_df, metadata, scrape_time, now, faults,
                 readerSaw, viewVars>>

\* lines 335-337: if new_data.empty: return False
NoData(j) ==
  /\ pc[j] = At("check", "-")
  /\ is_empty(new_data[j])
  /\ Finish(j, "False")
  /\ UNCHANGED <<fs, new_data, now, runs, faults, readerSaw, call, viewVars>>

\* lines 339-353: load the existing schedule, drop the range, append, sort.
\* pd.read_csv of a file that is being written raises or parses what is there.
ReadExisting(j) ==
  /\ pc[j] = At("check", "-")
  /\ ~is_empty(new_data[j])
  /\ LET file == fs["sched"]["file"]
         merged == combine(file, new_data[j], start_date(j), end_date(j))
     IN \/ /\ combined_df' = [combined_df EXCEPT ![j] = merged]
           /\ Goto(j, At("backup", "sched"))
           /\ UNCHANGED <<draft_df, metadata, scrape_time>>
        \/ /\ file.exists /\ file.torn
           /\ Finish(j, OnException(j))
  /\ UNCHANGED <<fs, new_data, now, runs, faults, readerSaw, call, viewVars>>

\* update_draft_data lines 389-393 / run_scraper lines 426-434: scrape the
\* roster and validate it; both happen before any file is touched
StartDraft(j, n, v) ==
  /\ j \in {"draft", "run_scraper"}
  /\ pc[j] = Idle
  /\ runs < MaxRuns
  /\ runs' = runs + 1
  /\ IF validate_data(n, MinDraftRows)
       THEN /\ draft_df' = [draft_df EXCEPT ![j] = [v |-> v, n |-> n]]
            /\ pc' = [pc EXCEPT ![j] = At("backup", "draft")]
            /\ result' = [result EXCEPT ![j] = "running"]
            /\ scrape_time' = [scrape_time EXCEPT ![j] =
                                 IF j = "run_scraper" THEN now ELSE Null]
            /\ UNCHANGED <<combined_df, metadata>>
       ELSE Finish(j, OnException(j))
  /\ UNCHANGED <<fs, new_data, now, faults, readerSaw, viewVars>>

\* run_scraper lines 443-465: scrape the season, validate, build the metadata
ScrapeSchedule(j) ==
  /\ pc[j] = At("scrape_sched", "-")
  /\ \E v \in 1..MaxVer, kinds \in [SourceDates -> FetchKinds] :
       LET schedule_df == scrape_ncaa_schedule(kinds, v)
       IN IF validate_data(RowCount(schedule_df), MinScheduleRows)
            THEN /\ combined_df' = [combined_df EXCEPT ![j] = schedule_df]
                 /\ new_data' = [new_data EXCEPT ![j] = schedule_df]
                 /\ metadata' = [metadata EXCEPT ![j] =
                      [last_scrape_time |-> scrape_time[j],
                       draft_prospects_count |-> draft_df[j].n,
                       games_count |-> RowCount(schedule_df),
                       scraper_version |-> "2.0",
                       last_today_scrape |-> scrape_time[j],
                       last_nearfuture_scrape |-> scrape_time[j],
                       last_full_scrape |-> scrape_time[j]]]
                 /\ Goto(j, At("backup", "sched"))
                 /\ UNCHANGED <<draft_df, scrape_time>>
            ELSE /\ Finish(j, OnException(j))
                 /\ UNCHANGED new_data
  /\ UNCHANGED <<fs, now, runs, faults, readerSaw, call, viewVars>>

\* backup_file(filepath)
Backup(j) ==
  /\ pc[j].op = "backup"
  /\ LET F == pc[j].file
     IN /\ fs' = [fs EXCEPT ![F] = backup_file(fs[F])]
        /\ Goto(j, At("open", F))
  /\ UNCHANGED <<new_data, combined_df, draft_df, metadata, scrape_time, now,
                 runs, faults, readerSaw, call, viewVars>>

\* df.to_csv(temp_path) / open(temp_metadata_path, 'w'): the open
OpenTmp(j) ==
  /\ pc[j].op = "open"
  /\ LET F == pc[j].file
     IN /\ fs' = [fs EXCEPT ![F] = fs_open(fs[F], F, j)]
        /\ Goto(j, At("write", F))
  /\ UNCHANGED <<new_data, combined_df, draft_df, metadata, scrape_time, now,
                 runs, faults, readerSaw, call, viewVars>>

\* df.to_csv(temp_path) / json.dump: the content is written and the file closed
WriteTmp(j) ==
  /\ pc[j].op = "write"
  /\ LET F == pc[j].file
     IN /\ \E ok \in CloseOutcomes(fs[F], j) :
             fs' = [fs EXCEPT ![F] = fs_close(fs[F], F, j, DataToWrite(j, F), ok)]
        /\ Goto(j, At("replace", F))
  /\ UNCHANGED <<new_data, combined_df, draft_df, metadata, scrape_time, now,
                 runs, faults, readerSaw, call, viewVars>>

\* the write raises OSError: the handle is closed on what was written so far
IOFault(j) ==
  /\ pc[j].op = "write"
  /\ faults < MaxFaults
  /\ faults' = faults + 1
  /\ LET F == pc[j].file
     IN fs' = [fs EXCEPT ![F] = fs_close(fs[F], F, j, EmptyOf(F), FALSE)]
  /\ Finish(j, OnException(j))
  /\ UNCHANGED <<new_data, now, runs, readerSaw, call, viewVars>>

\* os.replace(temp_path, filepath); FileNotFoundError when the temporary file
\* has been renamed away by another writer
Replace(j) ==
  /\ pc[j].op = "replace"
  /\ LET F == pc[j].file
     IN IF fs[F]["tmp"].exists
          THEN /\ fs' = [fs EXCEPT ![F] = fs_replace(fs[F], F)]
               /\ IF AfterReplace(j, F) = Idle
                    THEN Finish(j, "True")
                    ELSE /\ Goto(j, AfterReplace(j, F))
                         /\ UNCHANGED <<combined_df, draft_df, metadata, scrape_time>>
          ELSE /\ Finish(j, OnException(j))
               /\ UNCHANGED fs
  /\ UNCHANGED <<new_data, now, runs, faults, readerSaw, call, viewVars>>

\* lines 359-362 / 398-401: load the metadata and set this job's fields;
\* json.load of a file that is being written raises
LoadMeta(j) ==
  /\ pc[j] = At("load_meta", "-")
  /\ IF fs["meta"]["file"].exists /\ fs["meta"]["file"].torn
       THEN Finish(j, OnException(j))
       ELSE /\ metadata' = [metadata EXCEPT ![j] =
                 IF j = "draft"
                   THEN [load_metadata(fs["meta"]) EXCEPT
                           !.draft_prospects_count = draft_df[j].n,
                           !.last_scrape_time = now]
                   ELSE [load_metadata(fs["meta"]) EXCEPT
                           ![ScrapeKey(j)] = now,
                           !.games_count = RowCount(combined_df[j])]]
            /\ Goto(j, At("open", "meta"))
            /\ UNCHANGED <<combined_df, draft_df, scrape_time>>
  /\ UNCHANGED <<fs, new_data, now, runs, faults, readerSaw, call, viewVars>>

\* the wall clock advances
Tick ==
  /\ \E d \in TickSteps : now + d <= MaxClock /\ now' = now + d
  /\ UNCHANGED <<fs, pc, new_data, combined_df, draft_df, metadata, scrape_time,
                 result, runs, faults, readerSaw, call, viewVars>>

\* app.py load_draft_data / load_todays_schedule / load_metadata: the display
\* layer opens a data file, with no coordination with the writers
ReaderLoad ==
  /\ \E F \in Files :
       /\ fs[F]["file"].exists
       /\ readerSaw' = IF fs[F]["file"].torn THEN "partial" ELSE "complete"
  /\ UNCHANGED <<fs, pc, new_data, combined_df, draft_df, metadata, scrape_time,
                 result, now, runs, faults, call, viewVars>>

(* --------------------------- initial states --------------------------- *)
\* the data directory a full run at minute 0 of an earlier day left behind
SnapshotRows ==
  [i \in 1..5 |-> [DATE |-> SortedDates(SourceDates \cup {PastDate})[i], v |-> 0]]

SnapshotMeta ==
  [last_scrape_time |-> 0, draft_prospects_count |-> 60,
   games_count |-> RowCount(SnapshotRows), scraper_version |-> "2.0",
   last_today_scrape |-> 0, last_nearfuture_scrape |-> 0, last_full_scrape |-> 0]

EmptyDir == [F \in Files |-> [s \in Slots |-> NoFile(F)]]

SnapshotDir ==
  [F \in Files |->
     [s \in Slots |->
        IF s # "file" THEN NoFile(F)
        ELSE FileOf(CASE F = "sched" -> SnapshotRows
                      [] F = "draft" -> [v |-> 0, n |-> 60]
                      [] OTHER -> SnapshotMeta)]]

InitNorm ==
  /\ raw = <<>> /\ key = <<>> /\ key2 = <<>> /\ nstep = 0

\* main.py has not loaded its frames
InitViews ==
  /\ prospects = <<>> /\ schedule = <<>>
  /\ draft_with_games = <<>> /\ games_with_players = <<>> /\ super_matchups = <<>>
  /\ mstep = 0

\* no scheduled job has computed its range
NoRange == [start |-> Null, end |-> Null]

InitRanges == today = Today /\ job_range = [j \in PartialJobs |-> NoRange]

\* lines 222-226: the locals of scrape_ncaa_schedule before the loop
SeasonLocals ==
  /\ batch = {} /\ dates_scraped = {} /\ dates_with_games = {}
  /\ day_offset = 0 /\ consecutive_empty = 0
  /\ season_pc = "while"

InitSeason == game_days = {} /\ SeasonLocals

\* no refresh of the schedule is under way
NoSchedule == [exists |-> FALSE, content |-> <<>>]

InitPool ==
  /\ fetch_range = NoRange /\ fetch_kinds = <<>>
  /\ future_to_date = {} /\ all_data_keys = <<>> /\ range_records = <<>>
  /\ sched_file = NoSchedule /\ sched_before = NoSchedule
  /\ refreshes = 0 /\ pool_pc = "idle" /\ pool_result = "none"

\* no cell has been given to extract_cell_content
NoCell == [img |-> FALSE, alt |-> <<>>, src |-> <<>>, text |-> <<>>]

InitCell == cell = NoCell /\ cell_content = <<>> /\ cstep = 0

\* the database is empty and no page has been rendered
InitBoard ==
  /\ db_prospects = {} /\ db_games = {} /\ db_game_prospects = {}
  /\ draft_board_list = <<>> /\ bstep = 0

\* app.py has cleaned no name
InitPaths == team_key = <<>> /\ side_key = <<>> /\ merge_key = <<>>

InitRest == InitPool /\ InitCell /\ InitBoard /\ InitPaths

\* the frames, ranges and loops of the other modules before they are used
ViewsAtRest == InitNorm /\ InitViews /\ InitRanges /\ InitSeason

InitFiles ==
  /\ fs \in {EmptyDir, SnapshotDir}
  /\ pc = [j \in Jobs |-> Idle]
  /\ new_data = [j \in Jobs |-> <<>>]
  /\ combined_df = [j \in Jobs |-> <<>>]
  /\ draft_df = [j \in Jobs |-> EmptyOf("draft")]
  /\ metadata = [j \in Jobs |-> DefaultMetadata]
  /\ scrape_time = [j \in Jobs |-> Null]
  /\ result = [j \in Jobs |-> "none"]
  /\ now = 0
  /\ runs = 0
  /\ faults = 0
  /\ readerSaw = "nothing"

\* the destination files as a reader finds them
Persisted(f) ==
  [F \in Files |-> [exists |-> f[F]["file"].exists,
                    content |-> f[F]["file"].content,
                    torn |-> f[F]["file"].torn]]

\* the dates of job j's range on which the source lists games
RangeDates(j) == {d \in SourceDates : start_date(j) <= d /\ d <= end_date(j)}

NoKinds == <<>>
NoCall == [job |-> "-", kinds |-> NoKinds, files |-> EmptyDir, faults |-> 0, now |-> 0]
Entered(j, kinds) ==
  [job |-> j, kinds |-> kinds, files |-> fs, faults |-> faults, now |-> now]

Init == InitFiles /\ ViewsAtRest /\ InitRest /\ call = NoCall

AllIdle == \A j \in Jobs : pc[j] = Idle

\* the scheduler's pool threads and the command line run concurrently
Next ==
  \/ \E j \in PartialJobs : \E kinds \in [RangeDates(j) -> FetchKinds], v \in 1..MaxVer :
       StartPartial(j, kinds, v) /\ UNCHANGED call
  \/ \E j \in {"draft", "run_scraper"}, n \in DraftSizes, v \in 1..MaxVer :
       StartDraft(j, n, v) /\ UNCHANGED call
  \/ \E j \in Jobs : NoData(j)
  \/ \E j \in Jobs : ReadExisting(j)
  \/ \E j \in Jobs : ScrapeSchedule(j)
  \/ \E j \in Jobs : Backup(j)
  \/ \E j \in Jobs : OpenTmp(j)
  \/ \E j \in Jobs : WriteTmp(j)
  \/ \E j \in Jobs : IOFault(j)
  \/ \E j \in Jobs : Replace(j)
  \/ \E j \in Jobs : LoadMeta(j)
  \/ Tick
  \/ ReaderLoad

Spec == Init /\ [][Next]_vars

\* one call at a time: a call is entered only when no other is in progress
NextSerial ==
  \/ \E j \in PartialJobs : \E kinds \in [RangeDates(j) -> FetchKinds], v \in 1..MaxVer :
       AllIdle /\ runs < MaxCalls /\ StartPartial(j, kinds, v) /\ call' = Entered(j, kinds)
  \/ \E j \in {"draft", "run_scraper"}, n \in DraftSizes, v \in 1..MaxVer :
       AllIdle /\ runs < MaxCalls /\ StartDraft(j, n, v) /\ call' = Entered(j, NoKinds)
  \/ \E j \in Jobs : NoData(j)
  \/ \E j \in Jobs : ReadExisting(j)
  \/ \E j \in Jobs : ScrapeSchedule(j)
  \/ \E j \in Jobs : Backup(j)
  \/ \E j \in Jobs : OpenTmp(j)
  \/ \E j \in Jobs : WriteTmp(j)
  \/ \E j \in Jobs : IOFault(j)
  \/ \E j \in Jobs : Replace(j)
  \/ \E j \in Jobs : LoadMeta(j)
  \/ Tick
  \/ ReaderLoad

SpecSerial == Init /\ [][NextSerial]_vars

\* the normaliser is applied to a raw name
Normalize ==
  /\ nstep = 0
  /\ key' = clean_team_name(raw)
  /\ nstep' = 1
  /\ UNCHANGED <<fileVars, call, raw, key2, mergeVars, rangeVars, seasonVars, restVars>>

\* the normaliser is applied to a key it produced
NormalizeAgain ==
  /\ nstep = 1
  /\ key2' = clean_team_name(key)
  /\ nstep' = 2
  /\ UNCHANGED <<fileVars, call, raw, key, mergeVars, rangeVars, seasonVars, restVars>>

InitNames ==
  /\ fs = EmptyDir
  /\ pc = [j \in Jobs |-> Idle]
  /\ new_data = [j \in Jobs |-> <<>>]
  /\ combined_df = [j \in Jobs |-> <<>>]
  /\ draft_df = [j \in Jobs |-> EmptyOf("draft")]
  /\ metadata = [j \in Jobs |-> DefaultMetadata]
  /\ scrape_time = [j \in Jobs |-> Null]
  /\ result = [j \in Jobs |-> "none"]
  /\ now = 0 /\ runs = 0 /\ faults = 0
  /\ readerSaw = "nothing"
  /\ call = NoCall
  /\ raw \in Names \cup Examples
  /\ key = <<>> /\ key2 = <<>> /\ nstep = 0
  /\ InitViews /\ InitRanges /\ InitSeason /\ InitRest

NextNames == Normalize \/ NormalizeAgain

\* the normaliser on every raw name up to MaxLen characters
SpecNames == InitNames /\ [][NextNames]_vars

(* --------------------- main.py: the merged views ---------------------- *)
\* main.py line 414 and lines 419-420
PrepareDraftWithGames ==
  /\ mstep = 0
  /\ draft_with_games' = sorted_by_rank(prepare_draft_with_games(prospects, schedule))
  /\ mstep' = 1
  /\ UNCHANGED <<fileVars, call, normVars, prospects, schedule, games_with_players,
                 super_matchups, rangeVars, seasonVars, restVars>>

\* main.py line 415
PrepareGamesWithPlayers ==
  /\ mstep = 1
  /\ games_with_players' = prepare_games_with_players(prospects, schedule)
  /\ mstep' = 2
  /\ UNCHANGED <<fileVars, call, normVars, prospects, schedule, draft_with_games,
                 super_matchups, rangeVars, seasonVars, restVars>>

\* main.py line 416
PrepareSuperMatchups ==
  /\ mstep = 2
  /\ super_matchups' = prepare_super_matchups(prospects, games_with_players)
  /\ mstep' = 3
  /\ UNCHANGED <<fileVars, call, normVars, prospects, schedule, draft_with_games,
                 games_with_players, rangeVars, seasonVars, restVars>>

\* no scrape is running and the data directory is empty
FilesAtRest ==
  /\ fs = EmptyDir
  /\ pc = [j \in Jobs |-> Idle]
  /\ new_data = [j \in Jobs |-> <<>>]
  /\ combined_df = [j \in Jobs |-> <<>>]
  /\ draft_df = [j \in Jobs |-> EmptyOf("draft")]
  /\ metadata = [j \in Jobs |-> DefaultMetadata]
  /\ scrape_time = [j \in Jobs |-> Null]
  /\ result = [j \in Jobs |-> "none"]
  /\ now = 0 /\ runs = 0 /\ faults = 0
  /\ readerSaw = "nothing"
  /\ call = NoCall

\* the two frames main.py loads at lines 402-403
InitMerge ==
  /\ FilesAtRest /\ InitNorm /\ InitRanges /\ InitSeason /\ InitRest
  /\ prospects \in DraftFrames
  /\ schedule \in ScheduleFrames
  /\ draft_with_games = <<>> /\ games_with_players = <<>> /\ super_matchups = <<>>
  /\ mstep = 0

NextMerge == PrepareDraftWithGames \/ PrepareGamesWithPlayers \/ PrepareSuperMatchups

\* main.py lines 402-416 on every pair of frames within the bounds
SpecMerge == InitMerge /\ [][NextMerge]_vars

(* -------------- background_scheduler.py: the date ranges -------------- *)
\* _update_today_games, _update_nearfuture_games, _update_full_season: the job
\* reads today and passes its range to update_schedule_partial
ComputeRange(j) ==
  /\ job_range[j] = NoRange
  /\ job_range' = [job_range EXCEPT ![j] = [start |-> range_start(j, today),
                                            end |-> range_end(j, today)]]
  /\ UNCHANGED <<fileVars, call, normVars, mergeVars, today, seasonVars,
                 restVars>>

InitRangesAnyDay ==
  /\ FilesAtRest /\ InitNorm /\ InitViews /\ InitSeason /\ InitRest
  /\ today \in 0..MaxToday
  /\ job_range = [j \in PartialJobs |-> NoRange]

NextRanges == \E j \in PartialJobs : ComputeRange(j)

\* the three schedule jobs on every value of today up to MaxToday
SpecRanges == InitRangesAnyDay /\ [][NextRanges]_vars

(* ---------------- scraper.py: the season loop, lines 214-274 ------------ *)
\* the lengths, in days, of the run of days with games
SeasonLengths == {0, 5, 25, 150, 400}

\* the source: days first .. first + length - 1 list games, every other day
\* has none
SeasonPatterns ==
  {{d \in 0..(SafetyLimit + BatchSize) : first <= d /\ d < first + length} :
     first \in 0..MaxFirstGame, length \in SeasonLengths}

\* lines 258-267: walk the scraped dates from the latest to the earliest, add
\* one for a date without games, reset to 0 on a date with games; here the
\* stretch hi down to lo of the walk
RECURSIVE count_stretch(_, _, _, _, _)
count_stretch(dates, data, hi, lo, count) ==
  IF hi < lo THEN count
  ELSE count_stretch(dates, data, hi - 1, lo,
         IF hi \notin dates THEN count
         ELSE IF hi \notin data THEN count + 1 ELSE 0)

\* the whole walk from date d down, one stretch of batch_size dates after the
\* other
RECURSIVE count_reversed(_, _, _, _)
count_reversed(dates, data, d, count) ==
  IF d < 0 THEN count
  ELSE LET lo == IF d - BatchSize + 1 < 0 THEN 0 ELSE d - BatchSize + 1
       IN count_reversed(dates, data, lo - 1,
                         count_stretch(dates, data, d, lo, count))

\* line 229 holds; lines 231-235: the next batch_size dates, day_offset moves on
PrepareBatch ==
  /\ season_pc = "while"
  /\ consecutive_empty < max_consecutive_empty /\ day_offset < SafetyLimit
  /\ batch' = day_offset .. (day_offset + BatchSize - 1)
  /\ day_offset' = day_offset + BatchSize
  /\ season_pc' = "scrape"
  /\ UNCHANGED <<fileVars, call, normVars, mergeVars, rangeVars, restVars,
                 game_days,
                 dates_scraped, dates_with_games, consecutive_empty>>

\* lines 240-254: every date of the batch is requested and recorded; the dates
\* with records go to all_data
ScrapeBatch ==
  /\ season_pc = "scrape"
  /\ dates_scraped' = dates_scraped \cup batch
  /\ dates_with_games' = dates_with_games \cup (batch \cap game_days)
  /\ season_pc' = "count"
  /\ UNCHANGED <<fileVars, call, normVars, mergeVars, rangeVars, restVars,
                 game_days,
                 batch, day_offset, consecutive_empty>>

\* lines 256-271: count, then break or go back to the loop test
CountEmpty ==
  /\ season_pc = "count"
  /\ consecutive_empty' =
       count_reversed(dates_scraped, dates_with_games, day_offset - 1, 0)
  /\ season_pc' = IF consecutive_empty' >= max_consecutive_empty
                    THEN "done" ELSE "while"
  /\ UNCHANGED <<fileVars, call, normVars, mergeVars, rangeVars, restVars,
                 game_days,
                 batch, dates_scraped, dates_with_games, day_offset>>

\* line 229 fails: the loop ends
LoopExit ==
  /\ season_pc = "while"
  /\ ~(consecutive_empty < max_consecutive_empty /\ day_offset < SafetyLimit)
  /\ season_pc' = "done"
  /\ UNCHANGED <<fileVars, call, normVars, mergeVars, rangeVars, restVars,
                 game_days,
                 batch, dates_scraped, dates_with_games, day_offset,
                 consecutive_empty>>

InitSeasonLoop ==
  /\ FilesAtRest /\ InitNorm /\ InitViews /\ InitRanges /\ InitRest
  /\ game_days \in SeasonPatterns
  /\ SeasonLocals

NextSeason == PrepareBatch \/ ScrapeBatch \/ CountEmpty \/ LoopExit

\* one call of scrape_ncaa_schedule on every source pattern
SpecSeason == InitSeasonLoop /\ [][NextSeason]_vars

\* the loop statements run one after the other until the loop ends
SpecSeasonLive == SpecSeason /\ WF_vars(NextSeason)

(* ------------- main.py: a schedule page with repeated listings ---------- *)
SevenPM == <<"7", ":", "0", "0", " ", "P", "M">>
ESPN == <<"E", "S", "P", "N">>

ListingTimes == {TBD, SevenPM}        \* time_text of a schedule row
ListingNetworks == {<<>>, ESPN}       \* tv of a schedule row
ListedTeams == {DukeRanked, StJohns}  \* the two sides of the listed games

\* the frames scrape_ncaa_schedule can return when the page lists a game more
\* than once: drop_duplicates() removes only rows equal in every column
ListedFrames ==
  {s \in UNION {[1..n -> [DATE : GameDates, AWAY : ListedTeams, HOME : ListedTeams,
                          TIME : ListingTimes, TV : ListingNetworks]] :
                  n \in 0..MaxGames} :
     /\ \A i \in 1..Len(s) : s[i].AWAY # s[i].HOME
     /\ \A i, k \in 1..Len(s) : i < k => s[i].DATE <= s[k].DATE /\ s[i] # s[k]}

InitListings ==
  /\ FilesAtRest /\ InitNorm /\ InitRanges /\ InitSeason /\ InitRest
  /\ prospects \in {d \in DraftFrames : \A i \in 1..Len(d) : d[i].Rank = i}
  /\ schedule \in ListedFrames
  /\ draft_with_games = <<>> /\ games_with_players = <<>> /\ super_matchups = <<>>
  /\ mstep = 0

\* the merged views over a schedule with repeated listings
SpecListings == InitListings /\ [][NextMerge]_vars

(* ------- scraper.py: the worker pool of one refresh, lines 154-357 ------ *)
\* the keys of all_data as the dict holds them, in insertion order
insertion_order(keys) == keys

\* sorted(all_data.keys())
sorted_keys(keys) == SortedDates({keys[i] : i \in DOMAIN keys})

\* lines 197-200: the records of every key in turn, as one frame
all_records(keys) == [i \in 1..Len(keys) |-> [DATE |-> keys[i], v |-> 1]]

\* lines 170-182: the dates of the range, one future per date; the call is
\* made on a fresh range or repeated on the same one
StartRefresh ==
  /\ pool_pc \in {"idle", "done"}
  /\ refreshes < MaxRefreshes
  /\ future_to_date' = fetch_range.start .. fetch_range.end
  /\ all_data_keys' = <<>>
  /\ range_records' = <<>>
  /\ sched_before' = sched_file
  /\ pool_pc' = "fetch"
  /\ pool_result' = "none"
  /\ UNCHANGED <<exceptPool, fetch_range, fetch_kinds, sched_file, refreshes>>

\* lines 184-195: as_completed yields the futures in the order they finish; a
\* date with records becomes a key of all_data
CompleteFetch(d) ==
  /\ pool_pc = "fetch"
  /\ d \in future_to_date
  /\ future_to_date' = future_to_date \ {d}
  /\ all_data_keys' = IF scrape_single_date(d, fetch_kinds[d])
                        THEN Append(all_data_keys, d)
                        ELSE all_data_keys
  /\ UNCHANGED <<exceptPool, fetch_range, fetch_kinds, range_records, sched_file,
                 sched_before, refreshes, pool_pc, pool_result>>

\* lines 197-205 and 334-376: the frame of the range, then the save
SaveRefresh ==
  /\ pool_pc = "fetch"
  /\ future_to_date = {}
  /\ LET new == all_records(sorted_keys(all_data_keys))
     IN  /\ range_records' = new
         /\ IF is_empty(new)
              THEN /\ pool_result' = "False"
                   /\ UNCHANGED sched_file
              ELSE /\ pool_result' = "True"
                   /\ sched_file' =
                        [exists |-> TRUE,
                         content |-> combine(sched_file, new, fetch_range.start,
                                             fetch_range.end)]
  /\ refreshes' = refreshes + 1
  /\ pool_pc' = "done"
  /\ UNCHANGED <<exceptPool, fetch_range, fetch_kinds, future_to_date, all_data_keys,
                 sched_before>>

\* the ranges a refresh is called with: up to MaxFetches dates from tomorrow
FetchRanges ==
  {[start |-> Today + NearStart, end |-> Today + NearStart + n - 1] :
     n \in 1..MaxFetches}

\* the schedule file before the refresh: missing, or an earlier scrape
PoolFiles == {NoSchedule, [exists |-> TRUE, content |-> SnapshotRows]}

InitRefresh ==
  /\ FilesAtRest /\ ViewsAtRest /\ InitCell /\ InitBoard /\ InitPaths
  /\ fetch_range \in FetchRanges
  /\ fetch_kinds \in [fetch_range.start .. fetch_range.end -> FetchKinds]
  /\ sched_file \in PoolFiles
  /\ future_to_date = {} /\ all_data_keys = <<>> /\ range_records = <<>>
  /\ sched_before = NoSchedule
  /\ refreshes = 0 /\ pool_pc = "idle" /\ pool_result = "none"

NextRefresh ==
  \/ StartRefresh
  \/ \E d \in future_to_date : CompleteFetch(d)
  \/ SaveRefresh

\* update_schedule_partial called on one range, then again on the same
\* range with the same fetched rows, the fetches completing in any order
SpecRefresh == InitRefresh /\ [][NextRefresh]_vars

(* ------------- scraper.py: extract_cell_content, lines 95-119 ----------- *)
\* alt texts, src paths and cell texts of the schedule page
AltEspn == <<"E", "S", "P", "N">>
AltPadded == <<" ", "E", "S", "P", "N", "2", " ">>
AltPlaceholder == <<"Y", "H", "5", "B", "A", "E", "A", "A", "A", "A", "A", "L", "A", "A", "A", "A", "A", "A", "B">>
AltLongest == <<"E", "S", "P", "N", " ", "C", "o", "l", "l", "e", "g", "e", " ", "H", "o", "o", "p", "s", "+">>
AltTooLong == <<"E", "S", "P", "N", " ", "C", "o", "l", "l", "e", "g", "e", " ", "H", "o", "o", "p", "s", " ", "2">>
SrcEspnPlus == <<"/", "i", "/", "n", "e", "t", "w", "o", "r", "k", "/", "e", "s", "p", "n", "_", "p", "l", "u", "s", ".", "p", "n", "g">>
SrcCbs == <<"/", "i", "/", "n", "e", "t", "w", "o", "r", "k", "/", "c", "b", "s", ".", "j", "p", "g">>
SrcFox == <<"/", "i", "/", "n", "e", "t", "w", "o", "r", "k", "/", "f", "o", "x", ".", "s", "v", "g">>
SrcTeamLogo == <<"/", "i", "/", "t", "e", "a", "m", "l", "o", "g", "o", "s", "/", "d", "u", "k", "e", ".", "p", "n", "g">>
TextPadded == <<" ", "E", "S", "P", "N", "+", " ">>

CellAlts == {<<>>, AltEspn, AltPadded, AltPlaceholder, AltLongest, AltTooLong}
CellSrcs == {<<>>, SrcEspnPlus, SrcCbs, SrcFox, SrcTeamLogo}
CellTexts == {<<>>, TextPadded, TBD}

\* the cells of a schedule row: with an image (its alt and src, "" when the
\* attribute is missing) or with text only
Cells ==
  [img : {TRUE}, alt : CellAlts, src : CellSrcs, text : CellTexts]
    \cup [img : {FALSE}, alt : {<<>>}, src : {<<>>}, text : CellTexts]

\* sub in s
Contains(s, sub) ==
  \E i \in 1..(Len(s) - Len(sub) + 1) : SubSeq(s, i, i + Len(sub) - 1) = sub

\* s.replace(old, new)
RECURSIVE replace(_, _, _)
replace(s, old, new) ==
  IF Len(s) < Len(old) THEN s
  ELSE IF StartsWith(s, old)
         THEN new \o replace(SubSeq(s, Len(old) + 1, Len(s)), old, new)
         ELSE <<Head(s)>> \o replace(Tail(s), old, new)

\* s.split("/")[-1]
RECURSIVE last_part(_)
last_part(s) ==
  IF \A i \in 1..Len(s) : s[i] # "/" THEN s ELSE last_part(Tail(s))

LowerCase == <<"a", "b", "c", "d", "e", "f", "g", "h", "i", "j", "k", "l", "m", "n", "o", "p", "q", "r", "s", "t", "u", "v", "w", "x", "y", "z">>
UpperCase == <<"A", "B", "C", "D", "E", "F", "G", "H", "I", "J", "K", "L", "M", "N", "O", "P", "Q", "R", "S", "T", "U", "V", "W", "X", "Y", "Z">>

\* s.upper()
upper(s) ==
  [i \in 1..Len(s) |->
     IF \E k \in 1..Len(LowerCase) : LowerCase[k] = s[i]
       THEN UpperCase[CHOOSE k \in 1..Len(LowerCase) : LowerCase[k] = s[i]]
       ELSE s[i]]

\* lines 114-116: the name derived from the src of the image
filename_of(src) ==
  upper(strip(replace(replace(replace(last_part(src), <<".", "p", "n", "g">>, <<>>),
                              <<".", "j", "p", "g">>, <<>>),
                      <<"_">>, <<" ">>)))

\* extract_cell_content
extract_cell_content(c) ==
  IF c.img /\ c.alt # <<>> /\ Len(c.alt) < 20 /\ ~StartsWith(c.alt, <<"Y", "H", "5">>)
    THEN strip(c.alt)
    ELSE IF c.img /\ c.src # <<>> /\ Contains(c.src, <<"n", "e", "t", "w", "o", "r", "k">>)
           THEN filename_of(c.src)
           ELSE strip(c.text)

\* one cell of a row is given to extract_cell_content
ExtractCell ==
  /\ cstep = 0
  /\ cell_content' = extract_cell_content(cell)
  /\ cstep' = 1
  /\ UNCHANGED <<exceptCell, cell>>

InitCells ==
  /\ FilesAtRest /\ ViewsAtRest /\ InitPool /\ InitBoard /\ InitPaths
  /\ cell \in Cells
  /\ cell_content = <<>> /\ cstep = 0

\* extract_cell_content on every cell of the pool
SpecCells == InitCells /\ [][ExtractCell]_vars

(* ------------ scraper.py: a data directory with older backups ---------- *)
\* the data directory after two full runs: each data file has a .backup left
\* by the second run, holding what the first run saved
BackedUpDir ==
  [F \in Files |->
     [s \in Slots |->
        CASE s = "file" -> SnapshotDir[F]["file"]
          [] s = "backup" ->
               FileOf(CASE F = "sched" -> <<[DATE |-> PastDate, v |-> 0]>>
                        [] F = "draft" -> [v |-> 0, n |-> 29]
                        [] OTHER -> [SnapshotMeta EXCEPT !.draft_prospects_count = 29,
                                                         !.games_count = GamesPerDate])
          [] OTHER -> NoFile(F)]]

InitBackups ==
  /\ fs \in {SnapshotDir, BackedUpDir}
  /\ pc = [j \in Jobs |-> Idle]
  /\ new_data = [j \in Jobs |-> <<>>]
  /\ combined_df = [j \in Jobs |-> <<>>]
  /\ draft_df = [j \in Jobs |-> EmptyOf("draft")]
  /\ metadata = [j \in Jobs |-> DefaultMetadata]
  /\ scrape_time = [j \in Jobs |-> Null]
  /\ result = [j \in Jobs |-> "none"]
  /\ now = 0 /\ runs = 0 /\ faults = 0
  /\ readerSaw = "nothing"
  /\ call = NoCall
  /\ ViewsAtRest /\ InitRest

\* one call at a time on a directory that earlier runs have written
SpecBackups == InitBackups /\ [][NextSerial]_vars

(* --------------- flask_app.py: index, lines 57-94 ----------------------- *)
\* the day on which the page is requested, and the days games are played on
RequestDay == Today + 2
GameDays == {RequestDay - 1, RequestDay, RequestDay + 1}

\* prospects p LEFT JOIN game_prospects gp LEFT JOIN games g: one row per
\* linked game, one row of NULLs (game 0, date Null) for a prospect without
\* a link
joined_rows(P, GP, G) ==
  UNION {LET linked == {g \in G : [prospect_id |-> p.id, game_id |-> g.id] \in GP}
         IN  IF linked = {}
               THEN {[rank |-> p.rank, game |-> 0, game_date |-> Null]}
               ELSE {[rank |-> p.rank, game |-> g.id, game_date |-> g.game_date] :
                       g \in linked}
         : p \in P}

\* WHERE g.game_date >= %s OR g.game_date IS NULL
where_upcoming(rows, day) ==
  {r \in rows : r.game_date = Null \/ r.game_date >= day}

\* ORDER BY p.rank, g.game_date (NULLs last): r may come before q
ordered_before(r, q) ==
  \/ r.rank < q.rank
  \/ r.rank = q.rank /\ (q.game_date = Null \/ (r.game_date # Null /\ r.game_date <= q.game_date))

\* lines 75-88: the first row of each rank, for some order the database may
\* return rows of equal rank and date in
first_rows(rows) ==
  {board \in [{r.rank : r \in rows} -> rows] :
     \A k \in DOMAIN board :
       /\ board[k].rank = k
       /\ \A q \in rows : q.rank = k => ordered_before(board[k], q)}

\* sorted(draft_board.values(), key=rank)
RECURSIVE sorted_board(_)
sorted_board(board) ==
  IF DOMAIN board = {} THEN <<>>
  ELSE LET k == CHOOSE x \in DOMAIN board : \A y \in DOMAIN board : x <= y
       IN  <<board[k]>> \o sorted_board([y \in DOMAIN board \ {k} |-> board[y]])

\* GET /: the query, the de-duplication by rank, the sort
Index ==
  /\ bstep = 0
  /\ \E board \in first_rows(where_upcoming(
                    joined_rows(db_prospects, db_game_prospects, db_games), RequestDay)) :
       draft_board_list' = sorted_board(board)
  /\ bstep' = 1
  /\ UNCHANGED <<exceptBoard, db_prospects, db_games, db_game_prospects>>

\* the tables: prospects with distinct ranks, games on the days around the
\* request, any links between them
InitDatabase ==
  /\ FilesAtRest /\ ViewsAtRest /\ InitPool /\ InitCell /\ InitPaths
  /\ \E n \in 1..MaxProspects : db_prospects = {[id |-> i, rank |-> i] : i \in 1..n}
  /\ \E n \in 0..MaxGames : \E days \in [1..n -> GameDays] :
       db_games = {[id |-> i, game_date |-> days[i]] : i \in 1..n}
  /\ db_game_prospects \in
       SUBSET {[prospect_id |-> p.id, game_id |-> g.id] : p \in db_prospects, g \in db_games}
  /\ draft_board_list = <<>> /\ bstep = 0

\* one request of the draft board page on every database of the pool
SpecBoard == InitDatabase /\ [][Index]_vars

(* ------------- app.py: the name cleaning paths, lines 153-186 ----------- *)
\* a pandas .str method leaves a missing value missing
on_str(s, cleaned) == IF s = NaN THEN NaN ELSE cleaned

\* lines 168-169 and 174-176: combined_df['TEAM']
clean_TEAM(s) ==
  on_str(s, prefix_rule(suffix_rule(remove_apostrophes(strip(strip_markers(s))))))

\* lines 178-186: combined_df['HomeTeam'] and combined_df['AwayTeam']
clean_side(s) ==
  on_str(s, remove_apostrophes(prefix_rule(suffix_rule(strip(strip_markers(s))))))

\* lines 153-156: draft_df['School_Merge']
clean_School_Merge(s) ==
  on_str(s, remove_apostrophes(prefix_rule(suffix_rule(s))))

\* one raw name goes through main.py's normaliser and through each cleaning
\* path of app.py
NormalizePaths ==
  /\ nstep = 0
  /\ key' = clean_team_name(raw)
  /\ team_key' = clean_TEAM(raw)
  /\ side_key' = clean_side(raw)
  /\ merge_key' = clean_School_Merge(raw)
  /\ nstep' = 1
  /\ UNCHANGED <<fileVars, call, raw, key2, mergeVars, rangeVars, seasonVars,
                 poolVars, cellVars, boardVars>>

InitAllPaths ==
  /\ FilesAtRest /\ InitViews /\ InitRanges /\ InitSeason
  /\ InitPool /\ InitCell /\ InitBoard /\ InitPaths
  /\ raw \in Names \cup Examples
  /\ key = <<>> /\ key2 = <<>> /\ nstep = 0

\* every cleaning path on every raw name up to MaxLen characters
SpecPaths == InitAllPaths /\ [][NormalizePaths]_vars

TypeOK ==
  /\ runs \in 0..MaxRuns
  /\ faults \in 0..MaxFaults
  /\ now \in 0..MaxClock

(* ======================= properties of the code ======================= *)
Rows(df) == {df[i] : i \in 1..Len(df)}
Dates(df) == {df[i].DATE : i \in 1..Len(df)}
InRange(j, d) == start_date(j) <= d /\ d <= end_date(j)

\* C1: a partition refresh whose scrape yields zero records leaves every file
\* of the data directory as it was when the call was entered, and returns False.
C1_ZeroRecordsNoMutation ==
  \A j \in PartialJobs :
    (call.job = j /\ new_data[j] = <<>>) =>
      /\ fs = call.files
      /\ pc[j] = Idle => result[j] = "False"

\* a refresh of a populated schedule has fetched nothing and has returned
C1_Witness ==
  \E j \in PartialJobs :
    /\ call.job = j /\ new_data[j] = <<>>
    /\ pc[j] = Idle /\ result[j] = "False"
    /\ fs["sched"]["file"].exists /\ fs["sched"]["file"].content # <<>>
    /\ fs["meta"]["file"].exists

\* C4: a successful refresh of partition P, run alone, leaves every schedule
\* row dated outside P's range as it was, puts the fetched rows in P's range,
\* leaves the roster file alone, and changes no metadata field other than P's
\* own timestamp and the games count.
C4_FrameOfPartialRefresh ==
  \A j \in PartialJobs :
    (call.job = j /\ pc[j] = Idle /\ result[j] = "True") =>
      LET old == call.files["sched"]["file"].content
          new == fs["sched"]["file"].content
          oldMeta == IF call.files["meta"]["file"].exists
                       THEN call.files["meta"]["file"].content ELSE DefaultMetadata
          newMeta == fs["meta"]["file"].content
      IN /\ {b \in Rows(new) : ~InRange(j, b.DATE)} = {b \in Rows(old) : ~InRange(j, b.DATE)}
         /\ {b \in Rows(new) : InRange(j, b.DATE)} = Rows(new_data[j])
         /\ fs["draft"]["file"] = call.files["draft"]["file"]
         /\ \A k \in (DOMAIN DefaultMetadata) \ {ScrapeKey(j), "games_count"} :
              newMeta[k] = oldMeta[k]

\* a refresh of a populated directory succeeded at a later minute than the
\* snapshot, with rows on both sides of its range
C4_Witness ==
  \E j \in PartialJobs :
    /\ call.job = j /\ pc[j] = Idle /\ result[j] = "True"
    /\ \E b \in Rows(call.files["sched"]["file"].content) : ~InRange(j, b.DATE)
    /\ \E b \in Rows(call.files["sched"]["file"].content) : InRange(j, b.DATE)
    /\ call.files["meta"]["file"].exists
    /\ fs["meta"]["file"].content[ScrapeKey(j)] # call.files["meta"]["file"].content[ScrapeKey(j)]

\* the staleness policy of the specification
is_stale(last_refreshed_at, t, interval) ==
  last_refreshed_at = Null \/ t - last_refreshed_at > interval

refresh_interval(j) ==
  CASE j = "today" -> TodayInterval
    [] j = "nearfuture" -> NearInterval
    [] OTHER -> DailyInterval

\* C5: a partition refresh fetches (and later writes) only when the partition
\* is stale by its persisted timestamp at the time the job is triggered.
C5_RefreshOnlyWhenStale ==
  \A j \in PartialJobs :
    (call.job = j /\ pc[j] # Idle) =>
      is_stale((IF call.files["meta"]["file"].exists
                  THEN call.files["meta"]["file"].content ELSE DefaultMetadata)[ScrapeKey(j)],
               call.now, refresh_interval(j))

\* C6: when run_scraper is rejected, the draft, schedule and metadata files
\* hold what they held when it was entered.
C6_RejectedRunKeepsFiles ==
  (call.job = "run_scraper" /\ pc["run_scraper"] = Idle /\ result["run_scraper"] = "raised")
    => \A F \in Files :
         call.files[F]["file"].exists => Persisted(fs)[F] = Persisted(call.files)[F]

\* C7: scrape_date_range returns the records of exactly the dates whose fetch
\* succeeded, whatever the other dates did, and a refresh that fetched at least
\* one date fails only on a file I/O error of its own.
C7_FailedDateDoesNotAbort ==
  \A j \in PartialJobs :
    call.job = j =>
      /\ Dates(new_data[j]) = {d \in DOMAIN call.kinds : call.kinds[d] = "ok"}
      /\ (pc[j] = Idle /\ result[j] = "False" /\ \E d \in DOMAIN call.kinds : call.kinds[d] = "ok")
           => faults > call.faults

\* a refresh succeeded although one date of its range failed and another did not
C7_Witness ==
  \E j \in PartialJobs :
    /\ call.job = j /\ pc[j] = Idle /\ result[j] = "True"
    /\ \E d1, d2 \in DOMAIN call.kinds :
         call.kinds[d1] = "ok" /\ call.kinds[d2] = "timeout"
    /\ Dates(new_data[j]) # {}

\* C2: once a 'today' and a 'nearfuture' refresh that ran at the same time, and
\* nothing else, have both returned True, the schedule holds the rows both
\* fetched and the metadata holds a timestamp for both.
C2_NoLostUpdate ==
  ( /\ runs = 2
    /\ AllIdle
    /\ result["today"] = "True" /\ result["nearfuture"] = "True"
    /\ \A j \in Jobs \ {"today", "nearfuture"} : result[j] = "none" )
  => /\ Rows(new_data["today"]) \cup Rows(new_data["nearfuture"])
          \subseteq Rows(fs["sched"]["file"].content)
     /\ fs["meta"]["file"].content["last_today_scrape"] # Null
     /\ fs["meta"]["file"].content["last_nearfuture_scrape"] # Null

\* C3: while only partition refreshes have run, a destination file that exists
\* is complete, and no load of the display layer met an incomplete one.
C3_NoPartialFile ==
  (result["draft"] = "none" /\ result["run_scraper"] = "none") =>
    /\ readerSaw # "partial"
    /\ \A F \in Files : fs[F]["file"].exists => ~fs[F]["file"].torn

\* C8: no scheduled job ends with an exception, and once a refresh has failed
\* and nothing is running, the files the next refresh has to read (schedule and
\* metadata) are readable, so that it can run and succeed.
C8_FailuresContained ==
  /\ \A j \in ScheduledJobs : result[j] # "raised"
  /\ (AllIdle /\ \E j \in ScheduledJobs : result[j] = "False")
       => \A F \in {"sched", "meta"} : fs[F]["file"].exists => ~fs[F]["file"].torn

\* C9: no two calls are inside the read-modify-replace of the schedule file at
\* the same time.
C9_SingleWriter ==
  \A j, k \in Jobs :
    (j # k /\ pc[j].file = "sched") => pc[k].file # "sched"

\* C10: normalising a key again changes nothing.
C10_Idempotent == nstep = 2 => key2 = key

\* the first and the last blank-separated token of a name
RECURSIVE FirstToken(_)
FirstToken(s) ==
  IF s = <<>> \/ Head(s) = " " THEN <<>> ELSE <<Head(s)>> \o FirstToken(Tail(s))

RECURSIVE LastToken(_)
LastToken(s) ==
  IF s = <<>> \/ s[Len(s)] = " " THEN <<>>
  ELSE LastToken(SubSeq(s, 1, Len(s) - 1)) \o <<s[Len(s)]>>

\* the key when only a token that is exactly "St." is rewritten: the last
\* token to "State", then the first token to "Saint"
KeyByTokens(x) ==
  LET St == <<"S", "t", ".">>
      cleaned == strip(strip_markers(x))
      suffixed == IF LastToken(cleaned) = St
                    THEN SubSeq(cleaned, 1, Len(cleaned) - 3) \o <<"S", "t", "a", "t", "e">>
                    ELSE cleaned
      prefixed == IF FirstToken(suffixed) = St
                    THEN <<"S", "a", "i", "n", "t">> \o SubSeq(suffixed, 4, Len(suffixed))
                    ELSE suffixed
  IN  IF x = NaN \/ x = <<>> THEN <<>> ELSE remove_apostrophes(prefixed)

\* C11: the spelling variants of a school get one key ("Oklahoma St." and
\* "Oklahoma State", "St. John's" and "Saint Johns", "@Duke 12" and "Duke"), and
\* "St." is rewritten only where it is a whole token: the last token becomes
\* "State", the first token becomes "Saint".
C11_SpellingVariants ==
  nstep >= 1 =>
    /\ raw \in {OklahomaSt, OklahomaState} => key = OklahomaState
    /\ raw \in {StJohnsApostrophe, SaintJohns} => key = SaintJohns
    /\ raw \in {AtDuke, Duke} => key = Duke
    /\ key = KeyByTokens(raw)

\* the games of schedule_df one of whose normalized team keys is the prospect's
\* normalized school
MatchingGames(p) ==
  {i \in 1..Len(schedule) :
     \/ clean_team_name(schedule[i].HOME) = clean_team_name(p.School)
     \/ clean_team_name(schedule[i].AWAY) = clean_team_name(p.School)}

\* the rows of the draft board that show prospect p
BoardRows(p) ==
  {i \in 1..Len(draft_with_games) :
     /\ draft_with_games[i].Rank = p.Rank
     /\ draft_with_games[i].Player = p.Player
     /\ draft_with_games[i].School = p.School}

\* C12: a prospect whose normalized school matches no game, for every roster
\* and every schedule (the empty schedule too), has a row on the draft board,
\* with empty date, time and opponent fields.
C12_UnmatchedProspectKept ==
  mstep >= 1 =>
    \A k \in 1..Len(prospects) :
      MatchingGames(prospects[k]) = {} =>
        \E i \in BoardRows(prospects[k]) :
          /\ draft_with_games[i].DATE = Null
          /\ draft_with_games[i].TIME = NaN
          /\ draft_with_games[i].AWAY = NaN
          /\ draft_with_games[i].HOME = NaN

\* C13: the draft board has exactly one row per prospect, and the row of a
\* prospect with a matching game carries a matching game of the minimum date.
C13_OneRowPerProspect ==
  mstep >= 1 =>
    /\ Len(draft_with_games) = Len(prospects)
    /\ \A k \in 1..Len(prospects) :
         /\ Cardinality(BoardRows(prospects[k])) = 1
         /\ MatchingGames(prospects[k]) # {} =>
              \E i \in BoardRows(prospects[k]), g \in MatchingGames(prospects[k]) :
                /\ draft_with_games[i].DATE = schedule[g].DATE
                /\ draft_with_games[i].AWAY = schedule[g].AWAY
                /\ draft_with_games[i].HOME = schedule[g].HOME
                /\ \A h \in MatchingGames(prospects[k]) :
                     schedule[g].DATE <= schedule[h].DATE

\* the columns a super-matchups row and a games-by-date row share
SameGameColumns(r, g) ==
  /\ r.DATE = g.DATE /\ r.AWAY = g.AWAY /\ r.HOME = g.HOME
  /\ r.TIME = g.TIME /\ r.TV = g.TV /\ r.All_Players = g.All_Players

\* C14: every row of the super-matchups output appears in the games-by-date
\* output, with the same date, away, home, time, TV and player list.
C14_SuperMatchupsSubset ==
  mstep = 3 =>
    \A i \in 1..Len(super_matchups) :
      \E g \in 1..Len(games_with_players) :
        SameGameColumns(super_matchups[i], games_with_players[g])

\* the three views are built and there is a super matchup
C14_Witness == mstep = 3 /\ super_matchups # <<>>

\* the prospects whose normalized school is one of the game's two team keys
MatchingProspects(g) ==
  {k \in 1..Len(prospects) :
     \/ clean_team_name(prospects[k].School) = clean_team_name(g.HOME)
     \/ clean_team_name(prospects[k].School) = clean_team_name(g.AWAY)}

\* the members of a set of roster rows, by ascending rank
RECURSIVE ByRank(_)
ByRank(S) ==
  IF S = {} THEN <<>>
  ELSE LET k == CHOOSE x \in S : \A y \in S : prospects[x].Rank <= prospects[y].Rank
       IN  <<prospects[k]>> \o ByRank(S \ {k})

\* "{school}-#{rank} {player}" of each prospect, joined by ", "
RECURSIVE PlayerList(_)
PlayerList(ps) ==
  IF ps = <<>> THEN <<>>
  ELSE LET first == Head(ps).School \o <<"-", "#">> \o str(Head(ps).Rank)
                      \o <<" ">> \o Head(ps).Player
       IN  IF Len(ps) = 1 THEN first ELSE first \o <<",", " ">> \o PlayerList(Tail(ps))

\* C15: the player list of a game names every prospect whose normalized school
\* is the game's normalized home or away key, as "{school}-#{rank} {player}",
\* joined by ", ", by ascending rank; a game no prospect matches has an empty
\* list and still has its row.
C15_PlayerListOfGame ==
  (mstep >= 2 /\ schedule # <<>>) =>
    /\ Len(games_with_players) = Len(schedule)
    /\ \A i \in 1..Len(schedule) :
         /\ games_with_players[i].DATE = schedule[i].DATE
         /\ games_with_players[i].AWAY = schedule[i].AWAY
         /\ games_with_players[i].HOME = schedule[i].HOME
         /\ games_with_players[i].All_Players =
              PlayerList(ByRank(MatchingProspects(schedule[i])))

\* a game two prospects match, listed in the roster against their rank, and a
\* game no prospect matches
C15_Witness ==
  /\ mstep >= 2
  /\ \E i \in 1..Len(schedule) : MatchingProspects(schedule[i]) = {}
  /\ \E i \in 1..Len(schedule) :
       \E k, m \in MatchingProspects(schedule[i]) :
         k < m /\ prospects[k].Rank > prospects[m].Rank

\* C20: a game is in the super-matchups output exactly when its normalized
\* home key is some prospect's normalized school and its normalized away key is
\* some prospect's normalized school.
C20_BothSidesExactly ==
  mstep = 3 =>
    \A g \in 1..Len(schedule) :
      (\E i \in 1..Len(super_matchups) :
         /\ super_matchups[i].DATE = schedule[g].DATE
         /\ super_matchups[i].AWAY = schedule[g].AWAY
         /\ super_matchups[i].HOME = schedule[g].HOME)
      <=> /\ \E k \in 1..Len(prospects) :
               clean_team_name(prospects[k].School) = clean_team_name(schedule[g].HOME)
          /\ \E k \in 1..Len(prospects) :
               clean_team_name(prospects[k].School) = clean_team_name(schedule[g].AWAY)

\* a schedule with a game matched on both sides and a game matched on one side
C20_Witness ==
  /\ mstep = 3 /\ super_matchups # <<>>
  /\ Len(super_matchups) < Len(schedule)
  /\ \A g \in 1..Len(schedule) : MatchingProspects(schedule[g]) # {}

\* the roster and the schedule of the end-to-end scenario, on date D
ScenarioRoster ==
  <<[Rank |-> 1, Team |-> <<"-">>, Player |-> PlayerName(1), School |-> Duke],
    [Rank |-> 2, Team |-> <<"-">>, Player |-> PlayerName(2), School |-> StJohnsApostrophe]>>

ScenarioSchedule(D) ==
  <<[DATE |-> D, AWAY |-> StJohns, HOME |-> DukeRanked, TIME |-> TBD, TV |-> <<>>]>>

\* "Duke-#1 <player>, <school>-#2 <player>"
ScenarioPlayers(school) ==
  Duke \o <<"-", "#", "1", " ">> \o PlayerName(1) \o <<",", " ">>
    \o school \o <<"-", "#", "2", " ">> \o PlayerName(2)

\* the outcome of the scenario, with the given name for the second school
ScenarioOutcome(D, school) ==
  /\ Len(draft_with_games) = 2
  /\ \A i \in 1..2 :
       /\ draft_with_games[i].DATE = D
       /\ draft_with_games[i].AWAY = StJohns
       /\ draft_with_games[i].HOME = DukeRanked
  /\ Len(super_matchups) = 1
  /\ super_matchups[1].All_Players = ScenarioPlayers(school)

\* C16 as stated: with prospects [{rank 1, school "Duke"}, {rank 2, school
\* "St. John's"}] and one game {date D, away "St. Johns", home "Duke 5"}, the
\* draft board has 2 rows, both with the game of date D, and super matchups has
\* exactly 1 row, whose player list reads "Duke-#1 <player>, Saint Johns-#2
\* <player>".
C16_Scenario ==
  \A D \in GameDates :
    (mstep = 3 /\ prospects = ScenarioRoster /\ schedule = ScenarioSchedule(D)) =>
      ScenarioOutcome(D, SaintJohns)

\* C16 as amended: the same scenario, where the player list reads
\* "Duke-#1 <player>, St. John's-#2 <player>": the school as the roster spells it.
C16_ScenarioRawSchool ==
  \A D \in GameDates :
    (mstep = 3 /\ prospects = ScenarioRoster /\ schedule = ScenarioSchedule(D)) =>
      ScenarioOutcome(D, StJohnsApostrophe)

\* the scenario has been run
C16_Witness ==
  \E D \in GameDates :
    mstep = 3 /\ prospects = ScenarioRoster /\ schedule = ScenarioSchedule(D)

\* the dates of the range job j passed on
RangeOf(j) == job_range[j].start .. job_range[j].end

\* C17: for every value of today, the ranges of the three schedule jobs are
\* [t, t], [t+1, t+7] and [t+8, t+98]: pairwise non-overlapping, contiguous, and
\* together exactly the horizon [t, t+98].
C17_RangesPartitionHorizon ==
  /\ \A j, k \in PartialJobs :
       (j # k /\ job_range[j] # NoRange /\ job_range[k] # NoRange) =>
         RangeOf(j) \cap RangeOf(k) = {}
  /\ (\A j \in PartialJobs : job_range[j] # NoRange) =>
       /\ job_range["today"] = [start |-> today, end |-> today]
       /\ job_range["nearfuture"] = [start |-> today + 1, end |-> today + 7]
       /\ job_range["full"] = [start |-> today + 8, end |-> today + 98]
       /\ job_range["nearfuture"].start = job_range["today"].end + 1
       /\ job_range["full"].start = job_range["nearfuture"].end + 1
       /\ UNION {RangeOf(j) : j \in PartialJobs} = today .. (today + 98)

\* the three jobs have fired on a day after the first
C17_Witness == today > 0 /\ \A j \in PartialJobs : job_range[j] # NoRange

\* the latest max_consecutive_empty scraped dates all have no games
TrailingEmpty ==
  /\ day_offset >= max_consecutive_empty
  /\ \A d \in (day_offset - max_consecutive_empty) .. (day_offset - 1) :
       d \in dates_scraped /\ d \notin dates_with_games

\* C18: scrape_ncaa_schedule goes on batch after batch until the latest
\* max_consecutive_empty scraped dates all have no games and stops at the end
\* of the first such batch; empty days followed by later days with games do
\* not stop it.
C18_StopsOnTrailingEmpty ==
  /\ (season_pc = "done" /\ day_offset < SafetyLimit) => TrailingEmpty
  /\ (season_pc = "while" /\ day_offset > 0) => ~TrailingEmpty

\* C19: scrape_ncaa_schedule never requests a date 365 days or more from
\* today, whatever the pattern of empty and non-empty days.
C19_WithinSafetyLimit == \A d \in dates_scraped : d < SafetyLimit

\* C19, the other half: scrape_ncaa_schedule always terminates.
C19_Terminates == <>(season_pc = "done")

\* C21: super matchups never hold two rows with the same (date, away raw name,
\* home raw name), even when the schedule lists that game several times with
\* different start times or TV networks.
C21_OneRowPerGame ==
  mstep = 3 =>
    \A i, k \in 1..Len(super_matchups) :
      (/\ super_matchups[i].DATE = super_matchups[k].DATE
       /\ super_matchups[i].AWAY = super_matchups[k].AWAY
       /\ super_matchups[i].HOME = super_matchups[k].HOME) => i = k

\* a frame in non-decreasing date order
DateOrdered(df) == \A i, k \in 1..Len(df) : i < k => df[i].DATE <= df[k].DATE

\* the records of the range as a function of the fetched pages alone
RecordsOfRange ==
  scrape_date_range(fetch_range.start, fetch_range.end, fetch_kinds, 1)

\* C22: whatever the order in which the fetches of a range complete,
\* scrape_date_range returns the same records in ascending date order, and
\* the schedule saved by the refresh is in non-decreasing date order.
C22_CompletionOrderIrrelevant ==
  pool_pc = "done" =>
    /\ range_records = RecordsOfRange
    /\ DateOrdered(range_records)
    /\ (pool_result = "True" => DateOrdered(sched_file.content))

\* a refresh has saved records whose fetches completed latest date first
C22_Witness ==
  /\ pool_pc = "done" /\ pool_result = "True"
  /\ Len(all_data_keys) >= 2
  /\ all_data_keys[1] > all_data_keys[2]

\* C23: update_schedule_partial applied twice in succession to the same range
\* with the same fetched rows leaves the stored rows as one application left
\* them, so no game is stored twice.
C23_RefreshIdempotent ==
  (pool_pc = "done" /\ refreshes >= 2) =>
    /\ sched_file = sched_before
    /\ \A i, k \in 1..Len(sched_file.content) :
         sched_file.content[i] = sched_file.content[k] => i = k

\* the second refresh has saved rows next to stored rows outside the range
C23_Witness ==
  /\ pool_pc = "done" /\ refreshes >= 2 /\ pool_result = "True"
  /\ \E i \in 1..Len(sched_file.content) :
       sched_file.content[i].DATE > fetch_range.end
  /\ \E i \in 1..Len(sched_file.content) :
       sched_file.content[i].DATE = fetch_range.start

\* the stored rows of date d
StoredRowsOf(file, d) == {file.content[i] : i \in {k \in 1..Len(file.content) : file.content[k].DATE = d}}

\* C27: when update_schedule_partial succeeds although the fetch of a date d of
\* the range failed or returned nothing, the games stored for d before the
\* call are still stored after it.
C27_FailedDateKeepsStoredGames ==
  (pool_pc = "done" /\ pool_result = "True") =>
    \A d \in fetch_range.start .. fetch_range.end :
      ~scrape_single_date(d, fetch_kinds[d]) =>
        StoredRowsOf(sched_before, d) \subseteq StoredRowsOf(sched_file, d)

\* the file name without its extension: what precedes the last "."
RECURSIVE Stem(_)
Stem(f) ==
  IF \A i \in 1..Len(f) : f[i] # "." THEN f
  ELSE IF f[Len(f)] = "." THEN SubSeq(f, 1, Len(f) - 1)
  ELSE Stem(SubSeq(f, 1, Len(f) - 1))

\* the value C24 states for a cell
StatedContent(c) ==
  IF c.img /\ c.alt # <<>> /\ Len(c.alt) < 20 /\ ~StartsWith(c.alt, <<"Y", "H", "5">>)
    THEN strip(c.alt)
    ELSE IF c.img /\ Contains(c.src, <<"n", "e", "t", "w", "o", "r", "k">>)
           THEN upper(replace(Stem(last_part(c.src)), <<"_">>, <<" ">>))
           ELSE strip(c.text)

\* C24: cell extraction has a fixed precedence: the trimmed alt text of the
\* image when it is non-empty, shorter than 20 characters and not a "YH5"
\* placeholder; else, when the src holds "network", the src file name without
\* its extension, underscores as spaces, upper-cased; else the trimmed text.
C24_ExtractionPrecedence == cstep = 1 => cell_content = StatedContent(cell)

\* the data files a successful call of job j overwrites
Overwritten(j) ==
  CASE j \in PartialJobs -> {"sched"}
    [] j = "draft" -> {"draft"}
    [] OTHER -> {"sched", "draft"}

\* C25: after a successful refresh that overwrote an existing data file F, the
\* file F.backup holds exactly the content F had just before that overwrite.
C25_BackupBeforeOverwrite ==
  \A j \in Jobs :
    (call.job = j /\ pc[j] = Idle /\ result[j] = "True") =>
      \A F \in Overwritten(j) :
        call.files[F]["file"].exists =>
          /\ fs[F]["backup"].exists /\ ~fs[F]["backup"].torn
          /\ fs[F]["backup"].content = call.files[F]["file"].content

\* a successful refresh has replaced a data file whose older backup held
\* something else
C25_Witness ==
  \E j \in Jobs :
    /\ call.job = j /\ pc[j] = Idle /\ result[j] = "True"
    /\ \E F \in Overwritten(j) :
         /\ call.files[F]["file"].exists /\ call.files[F]["backup"].exists
         /\ call.files[F]["backup"].content # call.files[F]["file"].content
         /\ fs[F]["file"].content # call.files[F]["file"].content

\* the games linked to prospect p that are played on the request day or later
UpcomingGames(p) ==
  {g \in db_games : /\ [prospect_id |-> p.id, game_id |-> g.id] \in db_game_prospects
                    /\ g.game_date >= RequestDay}

\* the entries of the rendered list for prospect p
BoardEntries(p) ==
  {i \in 1..Len(draft_board_list) : draft_board_list[i].rank = p.rank}

\* C26: on the database-backed draft board every prospect of the table appears
\* exactly once, with its earliest game of today or later; a prospect without
\* such a game, also one whose linked games are all past, appears with empty
\* game fields.
C26_EveryProspectOnce ==
  bstep = 1 =>
    \A p \in db_prospects :
      /\ Cardinality(BoardEntries(p)) = 1
      /\ \A i \in BoardEntries(p) :
           IF UpcomingGames(p) = {}
             THEN draft_board_list[i].game = 0 /\ draft_board_list[i].game_date = Null
             ELSE \E g \in UpcomingGames(p) :
                    /\ draft_board_list[i].game = g.id
                    /\ draft_board_list[i].game_date = g.game_date
                    /\ \A h \in UpcomingGames(p) : g.game_date <= h.game_date

\* the data file a partition refresh or a draft update saves
Target(j) == IF j = "draft" THEN "draft" ELSE "sched"

\* C28: whenever update_schedule_partial or update_draft_data returns False,
\* the data file it targets is as it was when the call was entered, whatever
\* step failed, the metadata steps after the save included.
C28_FalseMeansUnchanged ==
  \A j \in ScheduledJobs :
    (call.job = j /\ pc[j] = Idle /\ result[j] = "False") =>
      Persisted(fs)[Target(j)] = Persisted(call.files)[Target(j)]

\* C29: after any calls of run_scraper, update_schedule_partial and
\* update_draft_data on a data directory that was empty, a metadata file that
\* exists holds a non-null last_scrape_time.
C29_LastScrapeTimeSet ==
  (call.files = EmptyDir /\ fs["meta"]["file"].exists /\ ~fs["meta"]["file"].torn) =>
    fs["meta"]["file"].content.last_scrape_time # Null

\* C30: every normalisation path gives the same key for every raw name: the
\* TEAM cell, the HomeTeam / AwayTeam cells and the School_Merge cell of app.py
\* and clean_team_name of main.py; the name "St." becomes "State" in each.
C30_PathsAgree ==
  (nstep = 1 /\ raw # NaN) =>
    /\ team_key = key /\ side_key = key /\ merge_key = key
    /\ raw = <<"S", "t", ".">> => key = <<"S", "t", "a", "t", "e">>

====
